---- MODULE Spec2Model ----
(***************************************************************************)
(* State-machine model of the mood-tracker HTTP API (src/routers/api.js)   *)
(* on top of the persistence collaborator (src/src/db.js).                 *)
(*                                                                         *)
(* The database is the only shared state: two tables, users and mood, and  *)
(* the serial that numbers the rows of mood.  Every request is a process   *)
(* that runs its handler from one await to the next; each action of the    *)
(* model is one such stretch: the synchronous code that follows an await,  *)
(* together with the one statement it hands to the database.               *)
(***************************************************************************)
EXTENDS Integers, Sequences, FiniteSets, TLC

\* ------------------------------------------------------------------ bounds
NumProcs == 2          \* requests that can be in flight at once
NumUsers == 2          \* rows of users in the initial state
MaxTicks == 2          \* the clock advances at most this many half-windows
MaxSamples == 3        \* rows ever inserted into mood
MaxTokens == 1         \* tokens ever drawn by PATCH /me

\* --------------------------------------------------------- program constants
WINDOW_MS == 10000     \* api.js:168, the coalescing window

\* Fixed point: a JavaScript number x is held as the integer x * Scale.
Scale == 10 * 10 * 10
\* JSON.parse yields Infinity for a literal such as 1e999.
Infinity == Scale * Scale * Scale

VARIABLES
  users,        \* table users: a set of rows
  mood,         \* table mood: a set of rows
  mood_id_seq,  \* the serial behind mood.id: the id the next insert gets
  now,          \* Date.now()
  req,          \* per process: the request it handles and its locals
  serial,       \* history: no two requests have been in flight together
  lastPut,      \* history: per user id, the row the last PUT /mood wrote and the
                \* number of PUT /mood in a row that have updated it (0, 1, 2 = more)
  rnd,          \* the number of tokens drawn from randomBytes
  inserted      \* history: per user id, the number of rows ever inserted into mood

vars == <<users, mood, mood_id_seq, now, req, serial, lastPut, rnd, inserted>>

Procs == 1..NumProcs
UserIds == 1..NumUsers

\* --------------------------------------------------------------- JS values
\* An optional value (undefined or a value) is the empty set or a singleton.
None == {}
Some(x) == {x}
The(s) == CHOOSE x \in s : TRUE

\* A JSON value of a request body: its typeof and its value.
JUndef == [t |-> "undefined", v |-> 0]
JNum(n) == [t |-> "number", v |-> n]
JStr(s) == [t |-> "string", v |-> s]
JBool(b) == [t |-> "boolean", v |-> b]

\* JavaScript truthiness: undefined, "", 0 and false are falsy.
Truthy(x) ==
  CASE x.t = "undefined" -> FALSE
    [] x.t = "number" -> x.v # 0
    [] x.t = "string" -> Len(x.v) > 0
    [] x.t = "boolean" -> x.v

Abs(n) == IF n < 0 THEN -n ELSE n

\* ------------------------------------------------------------------ clock
TickMs == WINDOW_MS \div 2
\* The epoch clock is far beyond one window; the model starts one window in.
StartTime == WINDOW_MS
EndTime == StartTime + MaxTicks * TickMs

\* ---------------------------------------------------------------- database
\* Strings are sequences of characters, so that patterns can be matched.
Amy == <<"a", "m", "y">>
Zed == <<"z", "e", "d">>
InitialName(u) == IF u = 1 THEN Amy ELSE IF u = 2 THEN Zed ELSE <<"u", "s", "r">>
InitialPassword(u) == <<"p", "w">>

\* bcrypt.hash and bcrypt.compare: the hash verifies exactly its own password.
Hash(pw) == <<"bcrypt", pw>>
Compare(pw, hash) == hash = Hash(pw)

InitialUser(u) ==
  [ id |-> u, username |-> InitialName(u),
    password_hash |-> Hash(InitialPassword(u)), token |-> u,
    is_profile_private |-> FALSE, is_history_private |-> FALSE,
    stats_mood_sets |-> 0 ]

\* fetch$: the first row of the result, or undefined.
Fetch(rows) == IF rows = {} THEN None ELSE Some(The(rows))

UserByToken(token) == Fetch({u \in users : u.token = token})

MoodOf(uid) == {m \in mood : m.user_id = uid}

\* fetchMood(user_id): the user's row of mood with the highest id; a user
\* without rows gets a sample with timestamp 0 and no id.
NoMood == [id |-> 0, timestamp |-> 0, pleasantness |-> 0, energy |-> 0, user_id |-> 0]
fetchMood(uid) ==
  IF MoodOf(uid) = {} THEN NoMood
  ELSE CHOOSE m \in MoodOf(uid) : \A o \in MoodOf(uid) : o.id <= m.id

\* ----------------------------------------------------------------- requests
\* A response: the HTTP status code, the names of the fields of its JSON body,
\* and the values of those fields.
Res(code, keys, status, message) ==
  [ code |-> code, keys |-> keys, status |-> status, message |-> message,
    deleted |-> 0, entries |-> <<>>, total |-> 0, pages |-> 0, mood |-> None,
    text |-> <<>> ]
NoRes == Res(0, {}, "", "")
Ok == Res(200, {"status"}, "ok", "")
Err(code, message) == Res(code, {"status", "message"}, "error", message)
\* An exception thrown inside an async handler: the promise is rejected, no
\* response is written and no further statement of the handler runs.
Thrown == Res(0, {}, "thrown", "")

\* The body of a request: absent fields are undefined.
NoBody ==
  [ pleasantness |-> JUndef, energy |-> JUndef, timestamps |-> JUndef,
    password |-> JUndef, username |-> JUndef, new_password |-> JUndef,
    confirm_password |-> JUndef, is_profile_private |-> JUndef,
    is_history_private |-> JUndef ]

\* The query string of a request: absent parameters are undefined.
NoQuery ==
  [limit |-> None, page |-> None, before |-> None, after |-> None, sort |-> None]

\* The locals of the history handlers; history is the result of the select.
NoPaging ==
  [ limit |-> 0, page |-> 0, pages |-> 0, before |-> 0, after |-> 0, sort |-> "",
    history |-> None ]

\* The locals of GET /metrics: req.query.users, the rows selected and the
\* samples fetched so far.
NoMetrics == [names |-> None, users |-> <<>>, moods |-> <<>>]

Idle ==
  [ pc |-> "idle", op |-> "", auth |-> None, param |-> None, query |-> NoQuery,
    body |-> NoBody, user |-> None, lastMood |-> NoMood, ts |-> 0, branch |-> "",
    paging |-> NoPaging, metrics |-> NoMetrics, res |-> NoRes ]

InFlight(p) == req[p].pc \notin {"idle", "done"}

\* A request arrives at a process that handles none.
Arrive(p) ==
  /\ ~InFlight(p)
  /\ serial' = (serial /\ \A q \in Procs \ {p} : ~InFlight(q))

NewReq(op, auth, body, user) ==
  [Idle EXCEPT !.op = op, !.auth = auth, !.body = body, !.user = user]

Goto(p, r, pc) == req' = [req EXCEPT ![p] = [r EXCEPT !.pc = pc]]
Reply(p, r, res) == req' = [req EXCEPT ![p] = [r EXCEPT !.pc = "done", !.res = res]]

\* getAuth: the user whose token is the Authorization header.
getAuth(auth) == IF auth = None THEN None ELSE UserByToken(The(auth))

\* The response is written in the synchronous stretch that follows the last
\* statement of the handler: nothing else runs before the process is free.
Responding == \E q \in Procs : req[q].pc = "done"

Finish(p) ==
  /\ req[p].pc = "done"
  /\ req' = [req EXCEPT ![p] = Idle]
  /\ UNCHANGED <<users, mood, mood_id_seq, now, serial, lastPut, inserted, rnd>>

Tick ==
  /\ now < EndTime
  /\ now' = now + TickMs
  /\ UNCHANGED <<users, mood, mood_id_seq, req, serial, lastPut, inserted, rnd>>

\* ---------------------------------------------------------------- PUT /mood
\* The test without the range of energy.
ValidMoodPleasantnessOnly(body) ==
  ~ ( \/ body.pleasantness.t # "number"
      \/ body.energy.t # "number"
      \/ Abs(body.pleasantness.v) > 1 * Scale )

\* The typeof and range test of PUT /mood.
ValidMood(body) ==
  ~ ( \/ body.pleasantness.t # "number"
      \/ body.energy.t # "number"
      \/ Abs(body.pleasantness.v) > 1 * Scale
      \/ Abs(body.energy.v) > 1 * Scale )

\* PUT /mood requests in flight that may still insert a row.
PendingInserts ==
  Cardinality({q \in Procs :
                 /\ req[q].op = "PUT /mood"
                 /\ \/ req[q].pc \in {"fetchMood", "decide"}
                    \/ req[q].pc = "write" /\ req[q].branch = "insert"})

\* getAuth, then the validation of the body, up to the call of fetchMood.
PutMood(p, auth, body) ==
  /\ Arrive(p)
  /\ mood_id_seq + PendingInserts <= MaxSamples
  /\ LET r == NewReq("PUT /mood", auth, body, getAuth(auth))
     IN  IF r.user = None THEN Reply(p, r, Err(401, "Unauthorized"))
         ELSE IF ~ValidMood(body) THEN Reply(p, r, Err(400, "range"))
         ELSE Goto(p, r, "fetchMood")
  /\ UNCHANGED <<users, mood, mood_id_seq, now, lastPut, inserted, rnd>>

\* The query of fetchMood runs.
PutMoodFetch(p) ==
  /\ req[p].op = "PUT /mood" /\ req[p].pc = "fetchMood"
  /\ req' = [req EXCEPT ![p].lastMood = fetchMood(The(req[p].user).id),
                        ![p].pc = "decide"]
  /\ UNCHANGED <<users, mood, mood_id_seq, now, serial, lastPut, inserted, rnd>>

\* The rule with half the window, with the bound of the window included, and
\* the rule that never coalesces.
CoalesceHalfWindow(lastMood, t) == lastMood.timestamp + WINDOW_MS \div 2 > t
CoalesceInclusive(lastMood, t) == lastMood.timestamp + WINDOW_MS >= t
CoalesceNever(lastMood, t) == FALSE

\* The coalescing rule: is the last sample younger than the window?
Coalesce(lastMood, t) == lastMood.timestamp + WINDOW_MS > t

\* fetchMood has returned: the clock is read and the rule decides the write.
PutMoodDecide(p) ==
  /\ req[p].op = "PUT /mood" /\ req[p].pc = "decide"
  /\ req' = [req EXCEPT ![p].ts = now,
                        ![p].branch = IF Coalesce(req[p].lastMood, now)
                                      THEN "update" ELSE "insert",
                        ![p].pc = "write"]
  /\ UNCHANGED <<users, mood, mood_id_seq, now, serial, lastPut, inserted, rnd>>

\* update mood set pleasantness, energy, timestamp where id = lastMood.id
UpdateMood(rows, id, pleasantness, energy, ts) ==
  { IF m.id = id
    THEN [m EXCEPT !.pleasantness = pleasantness, !.energy = energy, !.timestamp = ts]
    ELSE m : m \in rows }

\* insert into mood values (default, timestamp, pleasantness, energy, user_id)
InsertMood(rows, id, ts, pleasantness, energy, uid) ==
  rows \cup { [id |-> id, timestamp |-> ts, pleasantness |-> pleasantness,
               energy |-> energy, user_id |-> uid] }

\* The schema of the two tables is not among the sources.  The data model
\* gives mood.user_id as the owning user's identifier and names no
\* referential constraint, so a row of mood may name a user that has no row.
OwnerConstraint(urows, mrows) == TRUE

NoPut == [id |-> 0, updates |-> 0]
Wrote(uid, id) ==
  [lastPut EXCEPT ![uid] = IF @.id = id THEN [@ EXCEPT !.updates = IF @ < 2 THEN @ + 1 ELSE @]
                           ELSE [id |-> id, updates |-> 1]]

\* The update or the insert runs.
PutMoodWrite(p) ==
  /\ req[p].op = "PUT /mood" /\ req[p].pc = "write"
  /\ LET r == req[p]
         uid == The(r.user).id
         updated == UpdateMood(mood, r.lastMood.id, r.body.pleasantness.v,
                               r.body.energy.v, r.ts)
         added == InsertMood(mood, mood_id_seq, r.ts, r.body.pleasantness.v,
                             r.body.energy.v, uid)
     IN  IF r.branch = "update"
         THEN /\ mood' = updated
              /\ lastPut' = IF \E m \in mood : m.id = r.lastMood.id
                            THEN Wrote(uid, r.lastMood.id) ELSE lastPut
              /\ Reply(p, r, Ok)
              /\ UNCHANGED <<mood_id_seq, inserted>>
         ELSE IF OwnerConstraint(users, added)
         THEN /\ mood' = added
              /\ mood_id_seq' = mood_id_seq + 1
              /\ lastPut' = [lastPut EXCEPT ![uid] = [id |-> mood_id_seq, updates |-> 0]]
              /\ inserted' = [inserted EXCEPT ![uid] = @ + 1]
              /\ Goto(p, r, "count")
         ELSE /\ Reply(p, r, Thrown)
              /\ UNCHANGED <<mood, mood_id_seq, lastPut, inserted>>
  /\ UNCHANGED <<users, now, serial, rnd>>

\* The counter left alone.
IncrementStatsSkipped(rows, uid) == rows

\* update users set stats_mood_sets = stats_mood_sets + 1 where id = user.id
IncrementStats(rows, uid) ==
  { IF u.id = uid THEN [u EXCEPT !.stats_mood_sets = @ + 1] ELSE u : u \in rows }

\* The counter increment that follows an insert runs.
PutMoodCount(p) ==
  /\ req[p].op = "PUT /mood" /\ req[p].pc = "count"
  /\ users' = IncrementStats(users, The(req[p].user).id)
  /\ Reply(p, req[p], Ok)
  /\ UNCHANGED <<mood, mood_id_seq, now, serial, lastPut, inserted, rnd>>

\* ------------------------------------------------------------- DELETE /mood
JArr(xs) == [t |-> "array", v |-> xs]
JNull == [t |-> "null", v |-> 0]

\* Number.isInteger
IsInteger(x) == x.t = "number" /\ x.v % Scale = 0 /\ Abs(x.v) # Infinity

\* Array.prototype.find with the callback (x) => !Number.isInteger(x): the
\* first element that is no integer, or undefined.
FindNonInteger(xs) ==
  IF \E i \in 1..Len(xs) : ~IsInteger(xs[i])
  THEN xs[CHOOSE i \in 1..Len(xs) :
            ~IsInteger(xs[i]) /\ \A j \in 1..(i - 1) : IsInteger(xs[j])]
  ELSE JUndef

ValidTimestamps(body) ==
  ~ ( \/ body.timestamps.t # "array"
      \/ Truthy(FindNonInteger(body.timestamps.v)) )

\* The integers of the array, as the timestamps they denote.
TimestampSet(xs) == {xs[i].v \div Scale : i \in {j \in 1..Len(xs) : IsInteger(xs[j])}}

\* getAuth, then the validation of the body, up to the delete statement.
DeleteMood(p, auth, body) ==
  /\ Arrive(p)
  /\ LET r == NewReq("DELETE /mood", auth, body, getAuth(auth))
     IN  IF r.user = None THEN Reply(p, r, Err(401, "Unauthorized"))
         ELSE IF ~ValidTimestamps(body) THEN Reply(p, r, Err(400, "timestamps"))
         ELSE Goto(p, r, "delete")
  /\ UNCHANGED <<users, mood, mood_id_seq, now, lastPut, inserted, rnd>>

\* The delete by timestamp without the owner.
DeletedByTimestampsOfAnyone(rows, uid, stamps) == {m \in rows : m.timestamp \in stamps}

\* delete from mood where user_id = $1 and timestamp = any($2) returning *
DeletedByTimestamps(rows, uid, stamps) ==
  {m \in rows : m.user_id = uid /\ m.timestamp \in stamps}

DeleteMoodExec(p) ==
  /\ req[p].op = "DELETE /mood" /\ req[p].pc = "delete"
  /\ LET r == req[p]
         gone == DeletedByTimestamps(mood, The(r.user).id,
                                     TimestampSet(r.body.timestamps.v))
     IN  /\ mood' = mood \ gone
         /\ Reply(p, r, [Res(200, {"status", "deleted"}, "ok", "")
                           EXCEPT !.deleted = Cardinality(gone)])
  /\ UNCHANGED <<users, mood_id_seq, now, serial, lastPut, inserted, rnd>>

\* ------------------------------------------ DELETE /history/all, DELETE /me
\* The password test shared by DELETE /me and DELETE /history/all: the
\* response that ends the request, or NoRes when the password is accepted.
PasswordGate(body, user) ==
  IF body.password.t # "string" THEN Err(400, "Missing password body field")
  ELSE IF ~Compare(body.password.v, user.password_hash)
       THEN Err(401, "Passwords do not match")
       ELSE NoRes

\* delete from mood where user_id = $1
DeleteMoodOf(rows, uid) == {m \in rows : m.user_id # uid}

\* delete from users where id = $1
DeleteUser(rows, uid) == {u \in rows : u.id # uid}

DeleteHistory(p, auth, body) ==
  /\ Arrive(p)
  /\ LET r == NewReq("DELETE /history/all", auth, body, getAuth(auth))
     IN  IF r.user = None THEN Reply(p, r, Err(401, "Unauthorized"))
         ELSE IF PasswordGate(body, The(r.user)) # NoRes
              THEN Reply(p, r, PasswordGate(body, The(r.user)))
              ELSE Goto(p, r, "delete")
  /\ UNCHANGED <<users, mood, mood_id_seq, now, lastPut, inserted, rnd>>

DeleteHistoryExec(p) ==
  /\ req[p].op = "DELETE /history/all" /\ req[p].pc = "delete"
  /\ mood' = DeleteMoodOf(mood, The(req[p].user).id)
  /\ Reply(p, req[p], Ok)
  /\ UNCHANGED <<users, mood_id_seq, now, serial, lastPut, inserted, rnd>>

DeleteMe(p, auth, body) ==
  /\ Arrive(p)
  /\ LET r == NewReq("DELETE /me", auth, body, getAuth(auth))
     IN  IF r.user = None THEN Reply(p, r, Err(401, "Unauthorized"))
         ELSE IF PasswordGate(body, The(r.user)) # NoRes
              THEN Reply(p, r, PasswordGate(body, The(r.user)))
              ELSE Goto(p, r, "delete")
  /\ UNCHANGED <<users, mood, mood_id_seq, now, lastPut, inserted, rnd>>

\* The first statement of DELETE /me: the user's samples.
DeleteMeMood(p) ==
  /\ req[p].op = "DELETE /me" /\ req[p].pc = "delete"
  /\ mood' = DeleteMoodOf(mood, The(req[p].user).id)
  /\ Goto(p, req[p], "delete_user")
  /\ UNCHANGED <<users, mood_id_seq, now, serial, lastPut, inserted, rnd>>

\* The second statement of DELETE /me: the user row.
DeleteMeUser(p) ==
  /\ req[p].op = "DELETE /me" /\ req[p].pc = "delete_user"
  /\ IF OwnerConstraint(DeleteUser(users, The(req[p].user).id), mood)
     THEN users' = DeleteUser(users, The(req[p].user).id) /\ Reply(p, req[p], Ok)
     ELSE UNCHANGED users /\ Reply(p, req[p], Thrown)
  /\ UNCHANGED <<mood, mood_id_seq, now, serial, lastPut, inserted, rnd>>

\* ---------------------------------------------------------------- PATCH /me
\* The characters of the class [a-z0-9_-].
NameChars ==
  { "a", "b", "c", "d", "e", "f", "g", "h", "i", "j", "k", "l", "m", "n", "o", "p",
    "q", "r", "s", "t", "u", "v", "w", "x", "y", "z",
    "0", "1", "2", "3", "4", "5", "6", "7", "8", "9", "_", "-" }

\* String.match(/^[a-z0-9_-]{3,32}$/)
MatchesPattern(s) ==
  /\ Len(s) >= 3 /\ Len(s) <= 32
  /\ \A i \in 1..Len(s) : s[i] \in NameChars

\* randomBytes(48).toString("base64url"): a token no user has been given.
FreshToken(n) == NumUsers + 1 + n

\* The confirmation of PATCH /me: the response that ends the request, or
\* NoRes when the handler goes on.  bcrypt.compare throws when its first
\* argument is no string.
ConfirmGate(body, user) ==
  IF Truthy(body.username) \/ Truthy(body.new_password)
  THEN IF body.confirm_password.t # "string" THEN Thrown
       ELSE IF ~Compare(body.confirm_password.v, user.password_hash)
            THEN Err(401, "Passwords do not match")
            ELSE NoRes
  ELSE NoRes

\* The assignments to req.user that follow the username check: password hash
\* and token, then the two privacy flags.
PatchFields(body, user, n) ==
  LET a == IF body.new_password.t = "string"
           THEN [user EXCEPT !.password_hash = Hash(body.new_password.v),
                             !.token = FreshToken(n)]
           ELSE user
      b == IF body.is_profile_private.t = "boolean"
           THEN [a EXCEPT !.is_profile_private = body.is_profile_private.v]
           ELSE a
  IN  IF body.is_history_private.t = "boolean"
      THEN [b EXCEPT !.is_history_private = body.is_history_private.v]
      ELSE b

\* PATCH /me requests in flight that may still draw a token.
PendingTokens ==
  Cardinality({q \in Procs : req[q].op = "PATCH /me" /\ req[q].pc = "check_username"
                              /\ req[q].body.new_password.t = "string"})

\* The handler from the token drawn (if any) to the update statement.
PatchGoUpdate(p, r, user) ==
  /\ Goto(p, [r EXCEPT !.user = Some(PatchFields(r.body, user, rnd))], "update")
  /\ rnd' = IF r.body.new_password.t = "string" THEN rnd + 1 ELSE rnd

\* getAuth, the confirmation and the pattern test of the new username.
PatchMe(p, auth, body) ==
  /\ Arrive(p)
  /\ body.new_password.t = "string" => rnd + PendingTokens < MaxTokens
  /\ LET r == NewReq("PATCH /me", auth, body, getAuth(auth))
     IN  IF r.user = None
         THEN Reply(p, r, Err(401, "Unauthorized")) /\ UNCHANGED rnd
         ELSE IF ConfirmGate(body, The(r.user)) # NoRes
         THEN Reply(p, r, ConfirmGate(body, The(r.user))) /\ UNCHANGED rnd
         ELSE IF body.username.t = "string"
         THEN /\ IF ~MatchesPattern(body.username.v)
                 THEN Reply(p, r, Err(400, "Invalid username"))
                 ELSE Goto(p, r, "check_username")
              /\ UNCHANGED rnd
         ELSE PatchGoUpdate(p, r, The(r.user))
  /\ UNCHANGED <<users, mood, mood_id_seq, now, lastPut, inserted>>

\* select 1 from users where username = $1
UsernameTaken(rows, name) == \E u \in rows : u.username = name

\* The username query has run.
PatchMeCheck(p) ==
  /\ req[p].op = "PATCH /me" /\ req[p].pc = "check_username"
  /\ LET r == req[p]
     IN  IF UsernameTaken(users, r.body.username.v)
         THEN Reply(p, r, Err(409, "Username taken")) /\ UNCHANGED rnd
         ELSE PatchGoUpdate(p, r, [The(r.user) EXCEPT !.username = r.body.username.v])
  /\ UNCHANGED <<users, mood, mood_id_seq, now, serial, lastPut, inserted>>

\* update users set username, password_hash, token, is_profile_private,
\* is_history_private where id = $6
UpdateUser(rows, user) ==
  { IF u.id = user.id
    THEN [u EXCEPT !.username = user.username, !.password_hash = user.password_hash,
                   !.token = user.token,
                   !.is_profile_private = user.is_profile_private,
                   !.is_history_private = user.is_history_private]
    ELSE u : u \in rows }

\* users.username is unique: an update that would repeat a name is refused.
UniqueUsernames(rows) ==
  \A u, w \in rows : u.username = w.username => u = w

PatchMeUpdate(p) ==
  /\ req[p].op = "PATCH /me" /\ req[p].pc = "update"
  /\ LET r == req[p]
     IN  IF UniqueUsernames(UpdateUser(users, The(r.user)))
         THEN users' = UpdateUser(users, The(r.user)) /\ Reply(p, r, Ok)
         ELSE UNCHANGED users /\ Reply(p, r, Thrown)
  /\ UNCHANGED <<mood, mood_id_seq, now, serial, lastPut, inserted, rnd>>

\* ---------------------------------------------------------- userParamOrAuth
\* The lookup by name that tests the history flag only.
PublicUserByNameHistoryFlag(name) ==
  Fetch({u \in users : u.username = name /\ u.is_history_private = FALSE})

\* The lookup of userParamOrAuth: by path username among the users with both
\* privacy flags false, else by token; a username that does not match the
\* pattern returns before any lookup.
PublicUserByName(name) ==
  Fetch({u \in users : /\ u.username = name
                       /\ u.is_profile_private = FALSE
                       /\ u.is_history_private = FALSE})

userParamOrAuth(param, auth) ==
  IF param # None
  THEN IF ~MatchesPattern(The(param)) THEN None ELSE PublicUserByName(The(param))
  ELSE IF auth # None THEN UserByToken(The(auth)) ELSE None

\* Whether userParamOrAuth calls next(): on the early return, and on a user found.
CallsNext(param, auth) ==
  \/ param # None /\ ~MatchesPattern(The(param))
  \/ userParamOrAuth(param, auth) # None

Unresolved(param) ==
  Err(401, IF param # None THEN "User not found" ELSE "Unauthorized")

NewGet(op, param, auth, query) ==
  [Idle EXCEPT !.op = op, !.param = param, !.auth = auth, !.query = query,
               !.user = userParamOrAuth(param, auth)]

\* ------------------------------------------------------------ GET /mood/:user?
GetMood(p, param, auth) ==
  /\ Arrive(p)
  /\ LET r == NewGet("GET /mood", param, auth, NoQuery)
     IN  IF ~CallsNext(param, auth) THEN Reply(p, r, Unresolved(param))
         ELSE IF r.user = None THEN Reply(p, r, Thrown)   \* req.user.id of undefined
         ELSE Goto(p, r, "fetchMood")
  /\ UNCHANGED <<users, mood, mood_id_seq, now, lastPut, inserted, rnd>>

GetMoodFetch(p) ==
  /\ req[p].op = "GET /mood" /\ req[p].pc = "fetchMood"
  /\ LET r == [req[p] EXCEPT !.lastMood = fetchMood(The(req[p].user).id)]
     IN  Reply(p, r, [Res(200, {"status", "mood"}, "ok", "")
                        EXCEPT !.mood = Some(r.lastMood)])
  /\ UNCHANGED <<users, mood, mood_id_seq, now, serial, lastPut, inserted, rnd>>

\* ------------------------------------------------------------------ parseInt
Digits == <<"0", "1", "2", "3", "4", "5", "6", "7", "8", "9">>
IsDigit(c) == \E d \in 1..10 : Digits[d] = c
DigitValue(c) == (CHOOSE d \in 1..10 : Digits[d] = c) - 1

\* The value of the longest prefix of digits of s from position i on, given
\* the value acc of the digits read so far.
RECURSIVE DigitsFrom(_, _, _)
DigitsFrom(s, i, acc) ==
  IF i <= Len(s) /\ IsDigit(s[i])
  THEN DigitsFrom(s, i + 1, acc * 10 + DigitValue(s[i]))
  ELSE acc

RECURSIVE SkipSpaces(_, _)
SkipSpaces(s, i) == IF i <= Len(s) /\ s[i] = " " THEN SkipSpaces(s, i + 1) ELSE i

\* parseInt(x) in radix 10: leading blanks, an optional sign, then digits up
\* to the first other character; NaN without a digit, and for undefined.
NaN == [nan |-> TRUE, v |-> 0]
ParseInt(x) ==
  IF x = None THEN NaN
  ELSE LET s == The(x)
           i == SkipSpaces(s, 1)
           signed == i <= Len(s) /\ s[i] \in {"-", "+"}
           j == IF signed THEN i + 1 ELSE i
       IN  IF j <= Len(s) /\ IsDigit(s[j])
           THEN [nan |-> FALSE,
                 v |-> IF signed /\ s[i] = "-" THEN -DigitsFrom(s, j, 0)
                       ELSE DigitsFrom(s, j, 0)]
           ELSE NaN

\* parseInt(x) || d: NaN and 0 are falsy.
ParseIntOr(x, d) == IF ParseInt(x).nan \/ ParseInt(x).v = 0 THEN d ELSE ParseInt(x).v

\* ------------------------------------------------------------------ history
Newest == <<"n", "e", "w", "e", "s", "t">>
Oldest == <<"o", "l", "d", "e", "s", "t">>

\* The sort direction of a query: "desc", "asc" or null.
SortOf(query) ==
  IF query.sort = Some(Newest) THEN "desc"
  ELSE IF query.sort = Some(Oldest) THEN "asc"
  ELSE "null"

\* req.query.sort && !sort
BadSort(query) ==
  query.sort # None /\ Len(The(query.sort)) > 0 /\ SortOf(query) = "null"

\* res.json without res.status: the HTTP status stays 200.
SortError == Res(200, {"status", "message"}, "error", "sort must be one of newest, oldest")

\* Math.floor(a / b) for b # 0
FloorDiv(a, b) == IF b > 0 THEN a \div b ELSE (-a) \div (-b)

\* Math.floor(x * 100) / 100
Truncate(x) == FloorDiv(x * 100, Scale) * (Scale \div 100)

\* The rows of a set in the order of their ids.
RECURSIVE OrderById(_, _)
OrderById(rows, dir) ==
  IF rows = {} THEN <<>>
  ELSE LET first == CHOOSE m \in rows :
                      \A o \in rows : IF dir = "asc" THEN m.id <= o.id ELSE m.id >= o.id
       IN  <<first>> \o OrderById(rows \ {first}, dir)

\* The limit without the offset.
LimitOnly(seq, n, k) == SubSeq(seq, 1, IF n < Len(seq) THEN n ELSE Len(seq))

\* limit n offset k
LimitOffset(seq, n, k) ==
  SubSeq(seq, k + 1, IF k + n < Len(seq) THEN k + n ELSE Len(seq))

\* history.map(...): the three fields of each row, the two values truncated.
Entries(history) ==
  [ i \in 1..Len(history) |->
      [ timestamp |-> history[i].timestamp,
        pleasantness |-> Truncate(history[i].pleasantness),
        energy |-> Truncate(history[i].energy) ] ]

\* ------------------------------------------------- GET /history/all/:user?
GetHistoryAll(p, param, auth, query) ==
  /\ Arrive(p)
  /\ LET r == [NewGet("GET /history/all", param, auth, query)
                 EXCEPT !.paging.sort = SortOf(query)]
     IN  IF ~CallsNext(param, auth) THEN Reply(p, r, Unresolved(param))
         ELSE IF BadSort(query) THEN Reply(p, r, SortError)
         ELSE IF r.user = None THEN Reply(p, r, Thrown)   \* req.user.id of undefined
         ELSE Goto(p, r, "select")
  /\ UNCHANGED <<users, mood, mood_id_seq, now, lastPut, inserted, rnd>>

\* select timestamp, pleasantness, energy from mood where user_id = $1
\* order by id ${sort}: without a sort parameter the text of the statement
\* is "order by id null", which the database rejects.
GetHistoryAllSelect(p) ==
  /\ req[p].op = "GET /history/all" /\ req[p].pc = "select"
  /\ LET r == req[p]
         history == OrderById(MoodOf(The(r.user).id), r.paging.sort)
     IN  IF r.paging.sort = "null" THEN Reply(p, r, Thrown)
         ELSE Reply(p, [r EXCEPT !.paging.history = Some(history)],
                    [Res(200, {"status", "entries"}, "ok", "")
                       EXCEPT !.entries = Entries(history)])
  /\ UNCHANGED <<users, mood, mood_id_seq, now, serial, lastPut, inserted, rnd>>

\* ----------------------------------------------------- GET /history/:user?
DefaultLimit == 25
MaxLimit == 100
\* Number.MAX_SAFE_INTEGER is 2^53 - 1; the model forms no integer beyond
\* the largest one of the checker, which stands for it.
MaxSafeInteger == 2147483647
IsSafeInteger(n) == Abs(n) <= MaxSafeInteger

\* The locals of the handler, from the query and the user of the request.
Paging(query, user, t) ==
  [ limit |-> ParseIntOr(query.limit, DefaultLimit),
    page |-> ParseIntOr(query.page, 0),
    pages |-> FloorDiv(user.stats_mood_sets, ParseIntOr(query.limit, DefaultLimit)),
    before |-> ParseIntOr(query.before, t),
    after |-> ParseIntOr(query.after, 0),
    sort |-> SortOf(query),
    history |-> None ]

BadLimit(g) == g.limit < 1 \/ g.limit > MaxLimit
BadRange(g) ==
  \/ g.after < 0 \/ g.after >= g.before
  \/ ~IsSafeInteger(g.before) \/ ~IsSafeInteger(g.after)

\* The short circuit without the exemption of page 0.
ShortCircuitPageZero(g) == g.page < 0 \/ g.page >= g.pages

\* page < 0 || (page && page >= pages)
ShortCircuit(g) == g.page < 0 \/ (g.page # 0 /\ g.page >= g.pages)

Page(g, user, history) ==
  [ Res(200, {"status", "entries", "total", "pages"}, "ok", "")
      EXCEPT !.entries = Entries(history), !.total = user.stats_mood_sets,
             !.pages = g.pages ]

GetHistory(p, param, auth, query) ==
  /\ Arrive(p)
  /\ LET r == NewGet("GET /history", param, auth, query)
     IN  IF ~CallsNext(param, auth) THEN Reply(p, r, Unresolved(param))
         ELSE IF r.user = None
         THEN Reply(p, r, Thrown)   \* req.user.stats_mood_sets of undefined
         ELSE LET g == Paging(query, The(r.user), now)
                  h == [r EXCEPT !.paging = g]
              IN  IF BadLimit(g)
                  THEN Reply(p, h, Res(200, {"status", "messge"}, "error", ""))
                  ELSE IF BadSort(query) THEN Reply(p, h, SortError)
                  ELSE IF BadRange(g)
                  THEN Reply(p, h, Res(200, {"status", "message"}, "error",
                                       "Invalid time range"))
                  ELSE IF ShortCircuit(g) THEN Reply(p, h, Page(g, The(r.user), <<>>))
                  ELSE Goto(p, h, "select")
  /\ UNCHANGED <<users, mood, mood_id_seq, now, lastPut, inserted, rnd>>

\* select ... from mood where user_id = $1 and timestamp > $2 and
\* timestamp < $3 order by id ${sort || "desc"} limit ${limit} offset ${page * limit}
SelectPage(rows, uid, g) ==
  LimitOffset(
    OrderById({m \in rows : /\ m.user_id = uid
                            /\ m.timestamp > g.after
                            /\ m.timestamp < g.before},
              IF g.sort = "null" THEN "desc" ELSE g.sort),
    g.limit, g.page * g.limit)

GetHistorySelect(p) ==
  /\ req[p].op = "GET /history" /\ req[p].pc = "select"
  /\ LET r == req[p]
         history == SelectPage(mood, The(r.user).id, r.paging)
     IN  Reply(p, [r EXCEPT !.paging.history = Some(history)],
               Page(r.paging, The(r.user), history))
  /\ UNCHANGED <<users, mood, mood_id_seq, now, serial, lastPut, inserted, rnd>>

\* ------------------------------------------------------------ GET /metrics
\* String.split(","): the pieces between the commas; "" gives one empty piece.
RECURSIVE SplitFrom(_, _, _)
SplitFrom(s, i, piece) ==
  IF i > Len(s) THEN <<piece>>
  ELSE IF s[i] = "," THEN <<piece>> \o SplitFrom(s, i + 1, <<>>)
  ELSE SplitFrom(s, i + 1, Append(piece, s[i]))
Split(s) == SplitFrom(s, 1, <<>>)

MaxNames == 16

\* The order of usernames in the database: character by character, in the
\* order of the character codes of [a-z0-9_-].
Collation ==
  <<"-", "0", "1", "2", "3", "4", "5", "6", "7", "8", "9", "_",
    "a", "b", "c", "d", "e", "f", "g", "h", "i", "j", "k", "l", "m",
    "n", "o", "p", "q", "r", "s", "t", "u", "v", "w", "x", "y", "z">>
CharRank(c) == CHOOSE k \in 1..Len(Collation) : Collation[k] = c
RECURSIVE StrLessFrom(_, _, _)
StrLessFrom(a, b, i) ==
  IF i > Len(b) THEN FALSE
  ELSE IF i > Len(a) THEN TRUE
  ELSE IF a[i] = b[i] THEN StrLessFrom(a, b, i + 1)
  ELSE CharRank(a[i]) < CharRank(b[i])
StrLess(a, b) == StrLessFrom(a, b, 1)

\* The rows in ascending order of username.
RECURSIVE OrderByUsernameAsc(_)
OrderByUsernameAsc(rows) ==
  IF rows = {} THEN <<>>
  ELSE LET first == CHOOSE u \in rows :
                      \A w \in rows : w = u \/ StrLess(u.username, w.username)
       IN  <<first>> \o OrderByUsernameAsc(rows \ {first})

\* order by username desc
RECURSIVE OrderByUsernameDesc(_)
OrderByUsernameDesc(rows) ==
  IF rows = {} THEN <<>>
  ELSE LET first == CHOOSE u \in rows :
                      \A w \in rows : w = u \/ StrLess(w.username, u.username)
       IN  <<first>> \o OrderByUsernameDesc(rows \ {first})

\* select id, username, stats_mood_sets from users where username = any($1)
\* and is_profile_private = false and is_history_private = false
\* order by username desc
SelectPublic(rows, names) ==
  OrderByUsernameDesc({u \in rows : /\ \E i \in 1..Len(names) : names[i] = u.username
                                    /\ u.is_profile_private = FALSE
                                    /\ u.is_history_private = FALSE})

\* Number.prototype.toFixed(2): the nearest hundredth, in hundredths.
ToFixed2(x) ==
  IF x >= 0 THEN (x + Scale \div 200) \div (Scale \div 100)
  ELSE -((-x + Scale \div 200) \div (Scale \div 100))

Comment(kind, metric) == [kind |-> kind, metric |-> metric, user |-> <<>>, value |-> 0]
Blank == Comment("blank", "")
Sample(metric, user, value) ==
  [kind |-> "sample", metric |-> metric, user |-> user, value |-> value]

\* The lines of the response, before join("\n").
Exposition(us, moods) ==
  <<Comment("HELP", "user_energy"), Comment("TYPE", "user_energy")>>
  \o [i \in 1..Len(us) |-> Sample("user_energy", us[i].username, ToFixed2(moods[i].energy))]
  \o <<Blank, Comment("HELP", "user_pleasantness"), Comment("TYPE", "user_pleasantness")>>
  \o [i \in 1..Len(us) |->
        Sample("user_pleasantness", us[i].username, ToFixed2(moods[i].pleasantness))]
  \o <<Blank, Comment("HELP", "user_mood_sets"), Comment("TYPE", "user_mood_sets")>>
  \o [i \in 1..Len(us) |-> Sample("user_mood_sets", us[i].username, us[i].stats_mood_sets)]

MetricsReply(p, r) ==
  Reply(p, r, [Res(200, {}, "", "") EXCEPT !.text = Exposition(r.metrics.users, r.metrics.moods)])

\* The tests of the users parameter, up to the select.
GetMetrics(p, names) ==
  /\ Arrive(p)
  /\ LET r == [Idle EXCEPT !.op = "GET /metrics", !.metrics.names = names]
     IN  IF names = None \/ The(names) = <<>>
         THEN Reply(p, r, Err(400, "Missing query param users"))
         ELSE IF Len(Split(The(names))) > MaxNames
         THEN Reply(p, r, Err(400, "Too many users"))
         ELSE Goto(p, r, "select")
  /\ UNCHANGED <<users, mood, mood_id_seq, now, lastPut, inserted, rnd>>

\* The select has run; without rows the loop is empty and the response goes out.
GetMetricsSelect(p) ==
  /\ req[p].op = "GET /metrics" /\ req[p].pc = "select"
  /\ LET r == [req[p] EXCEPT !.metrics.users =
                               SelectPublic(users, Split(The(req[p].metrics.names)))]
     IN  IF r.metrics.users = <<>> THEN MetricsReply(p, r) ELSE Goto(p, r, "fetchMood")
  /\ UNCHANGED <<users, mood, mood_id_seq, now, serial, lastPut, inserted, rnd>>

\* One fetchMood of the loop has run; after the last the response goes out.
GetMetricsFetch(p) ==
  /\ req[p].op = "GET /metrics" /\ req[p].pc = "fetchMood"
  /\ LET g == req[p].metrics
         r == [req[p] EXCEPT !.metrics.moods =
                               Append(g.moods, fetchMood(g.users[Len(g.moods) + 1].id))]
     IN  IF Len(r.metrics.moods) = Len(g.users)
         THEN MetricsReply(p, r) ELSE Goto(p, r, "fetchMood")
  /\ UNCHANGED <<users, mood, mood_id_seq, now, serial, lastPut, inserted, rnd>>

\* ------------------------------------------------------------ specification
Times == {StartTime + k * TickMs : k \in 0..MaxTicks}

InitDb(uids) ==
  /\ users = {InitialUser(u) : u \in uids}
  /\ mood = {}
  /\ mood_id_seq = 1
  /\ now = StartTime
  /\ req = [p \in Procs |-> Idle]
  /\ serial = TRUE
  /\ lastPut = [u \in UserIds |-> NoPut]
  /\ inserted = [u \in UserIds |-> 0]
  /\ rnd = 0

\* Concurrent requests of one account.
Account == CHOOSE u \in UserIds : \A w \in UserIds : u <= w
MoodA == [NoBody EXCEPT !.pleasantness = JNum(567), !.energy = JNum(-Scale)]
MoodB == [NoBody EXCEPT !.pleasantness = JNum(-1), !.energy = JNum(Scale)]
Password(pw) == [NoBody EXCEPT !.password = JStr(pw)]
Stamps(ts) == [NoBody EXCEPT !.timestamps = JArr(ts)]
JTime(t) == JNum(t * Scale)

Init == InitDb({Account})

Next ==
  \/ \E p \in Procs : Finish(p)
  \/ ~Responding /\ Tick
  \/ ~Responding /\ \E p \in Procs, body \in {MoodA, MoodB} : PutMood(p, Some(Account), body)
  \/ ~Responding /\ \E p \in Procs : PutMoodFetch(p)
  \/ ~Responding /\ \E p \in Procs : PutMoodDecide(p)
  \/ ~Responding /\ \E p \in Procs : PutMoodWrite(p)
  \/ ~Responding /\ \E p \in Procs : PutMoodCount(p)
  \/ ~Responding /\ \E p \in Procs : DeleteMood(p, Some(Account), Stamps(<<JTime(StartTime)>>))
  \/ ~Responding /\ \E p \in Procs : DeleteMoodExec(p)
  \/ ~Responding /\ \E p \in Procs :
       DeleteHistory(p, Some(Account), Password(InitialPassword(Account)))
  \/ ~Responding /\ \E p \in Procs : DeleteHistoryExec(p)
  \/ ~Responding /\ \E p \in Procs : DeleteMe(p, Some(Account), Password(InitialPassword(Account)))
  \/ ~Responding /\ \E p \in Procs : DeleteMeMood(p)
  \/ ~Responding /\ \E p \in Procs : DeleteMeUser(p)
  \/ ~Responding /\ \E p \in Procs :
       PatchMe(p, Some(Account), [NoBody EXCEPT !.is_profile_private = JBool(TRUE)])
  \/ ~Responding /\ \E p \in Procs : PatchMeUpdate(p)

Spec == Init /\ [][Next]_vars

\* ---------------------------------------------- validation of PUT /mood
\* One process; the bodies carry every kind of value for pleasantness and
\* energy: no value, null, a string, a boolean, numbers inside, on and beyond
\* the bounds, and the infinities.
JValues ==
  { JUndef, JNull, JStr(<<"0">>), JBool(TRUE),
    JNum(-Infinity), JNum(-Scale - 1), JNum(-Scale), JNum(567), JNum(Scale),
    JNum(Scale + 1), JNum(Infinity) }
AnyMoodBodies ==
  { [NoBody EXCEPT !.pleasantness = a, !.energy = b] : a \in JValues, b \in JValues }

NextValid ==
  \/ Finish(1)
  \/ ~Responding /\ Tick
  \/ ~Responding /\ \E auth \in {Some(Account), None}, body \in AnyMoodBodies :
                      PutMood(1, auth, body)
  \/ ~Responding /\ PutMoodFetch(1)
  \/ ~Responding /\ PutMoodDecide(1)
  \/ ~Responding /\ PutMoodWrite(1)
  \/ ~Responding /\ PutMoodCount(1)

SpecValid == Init /\ [][NextValid]_vars

\* ------------------------------------------------------------ the readers
\* One process reads a database that holds two users with any privacy flags
\* and rows of both.
Row(id, uid, t, a, b) ==
  [id |-> id, user_id |-> uid, timestamp |-> t, pleasantness |-> a, energy |-> b]
ReadMood ==
  { Row(1, 1, StartTime, 567, -1), Row(2, 2, StartTime, Scale, 0),
    Row(3, 1, StartTime + TickMs, -Scale, Scale), Row(4, 1, EndTime, -1, 5) }

InitRead ==
  /\ \E c \in [UserIds -> BOOLEAN \X BOOLEAN], n \in {3, 30} :
       users = { [InitialUser(u) EXCEPT !.is_profile_private = c[u][1],
                                         !.is_history_private = c[u][2],
                                         !.stats_mood_sets = IF u = 1 THEN n ELSE 1]
                 : u \in UserIds }
  /\ mood = ReadMood
  /\ mood_id_seq = 5
  /\ now = EndTime
  /\ req = [p \in Procs |-> Idle]
  /\ serial = TRUE
  /\ lastPut = [u \in UserIds |-> NoPut]
  /\ inserted = [u \in UserIds |-> IF u = 1 THEN 3 ELSE 1]
  /\ rnd = 0

Str(n) == IF n = 10 THEN <<"1", "0">> ELSE <<Digits[n + 1]>>
Params == {None, Some(Amy), Some(Zed), Some(<<"b", "o", "b">>), Some(<<"A", "B">>),
           Some(<<"a", "b">>)}
Auths == {None, Some(0), Some(1), Some(2)}
Sorts == {None, Some(Newest), Some(Oldest), Some(<<"x">>)}
Limits == {None, Some(Str(10)), Some(Str(1)), Some(Str(0)), Some(<<"-", "1">>),
           Some(<<"1", "0", "1">>)}
Pages == {None, Some(Str(0)), Some(Str(1)), Some(Str(2)), Some(Str(3)),
          Some(<<"-", "1">>)}
Who == {<<None, Some(1)>>, <<Some(Zed), None>>, <<Some(<<"A", "B">>), Some(1)>>}
\* after and before: absent, a range that holds rows, and an empty range.
Ranges ==
  { <<None, None>>,
    <<Some(<<"1", "0", "0", "0", "0">>), Some(<<"2", "0", "0", "0", "1">>)>>,
    <<Some(<<"1", "5", "0", "0", "0">>), Some(<<"1", "5", "0", "0", "0">>)>> }

NextRead ==
  \/ Finish(1)
  \/ ~Responding /\ \E param \in Params, auth \in Auths : GetMood(1, param, auth)
  \/ ~Responding /\ GetMoodFetch(1)
  \/ ~Responding /\ \E param \in Params, auth \in Auths, sort \in Sorts :
                      GetHistoryAll(1, param, auth, [NoQuery EXCEPT !.sort = sort])
  \/ ~Responding /\ GetHistoryAllSelect(1)
  \/ ~Responding /\ \E w \in Who, limit \in Limits, page \in Pages,
                         sort \in Sorts, range \in Ranges :
                      GetHistory(1, w[1], w[2],
                                 [NoQuery EXCEPT !.limit = limit, !.page = page,
                                                 !.sort = sort, !.after = range[1],
                                                 !.before = range[2]])
  \/ ~Responding /\ GetHistorySelect(1)

SpecRead == InitRead /\ [][NextRead]_vars

\* ------------------------------------------------------------- the account
\* One process changes and deletes the account of a user that has rows, with
\* and without the right password; a second user holds a username.
RightPassword == JStr(InitialPassword(Account))
WrongPassword == JStr(<<"n", "o">>)
Confirms == {JUndef, RightPassword, WrongPassword}
NewNames == {JUndef, JStr(<<>>), JStr(<<"b", "o", "b">>), JStr(Zed), JStr(<<"A", "B">>)}
NewPasswords == {JUndef, JStr(<<>>), JStr(<<"n", "e", "w">>)}
Flags == {JUndef, JBool(TRUE)}
PatchBodies ==
  { [NoBody EXCEPT !.username = a, !.new_password = b, !.confirm_password = c,
                   !.is_history_private = d]
    : a \in NewNames, b \in NewPasswords, c \in Confirms, d \in Flags }
PasswordBodies == { [NoBody EXCEPT !.password = c] : c \in Confirms }

InitAccount == InitDb(UserIds)

NextAccount ==
  \/ Finish(1)
  \/ ~Responding /\ PutMood(1, Some(Account), MoodA)
  \/ ~Responding /\ PutMoodFetch(1)
  \/ ~Responding /\ PutMoodDecide(1)
  \/ ~Responding /\ PutMoodWrite(1)
  \/ ~Responding /\ PutMoodCount(1)
  \/ ~Responding /\ \E body \in PatchBodies : PatchMe(1, Some(Account), body)
  \/ ~Responding /\ PatchMeCheck(1)
  \/ ~Responding /\ PatchMeUpdate(1)
  \/ ~Responding /\ \E body \in PasswordBodies : DeleteHistory(1, Some(Account), body)
  \/ ~Responding /\ DeleteHistoryExec(1)
  \/ ~Responding /\ \E body \in PasswordBodies : DeleteMe(1, Some(Account), body)
  \/ ~Responding /\ DeleteMeMood(1)
  \/ ~Responding /\ DeleteMeUser(1)

SpecAccount == InitAccount /\ [][NextAccount]_vars

\* ------------------------------------------------- overlapping PATCH /me
\* Requests of one account may overlap: PATCH /me that sets a privacy flag, a
\* new password or a new username, and reads with the token; the client goes
\* on with the old token or with the one a password change has drawn.
FlagOnly == [NoBody EXCEPT !.is_profile_private = JBool(TRUE)]
NewPassword ==
  [NoBody EXCEPT !.new_password = JStr(<<"n", "e", "w">>),
                 !.confirm_password = RightPassword]
NewName ==
  [NoBody EXCEPT !.username = JStr(<<"b", "o", "b">>),
                 !.confirm_password = RightPassword]
Tokens == {Some(Account), Some(FreshToken(0))}

NextPatch ==
  \/ \E p \in Procs : Finish(p)
  \/ ~Responding /\ \E p \in Procs, auth \in Tokens, body \in {FlagOnly, NewPassword, NewName} :
                      PatchMe(p, auth, body)
  \/ ~Responding /\ \E p \in Procs : PatchMeCheck(p)
  \/ ~Responding /\ \E p \in Procs : PatchMeUpdate(p)
  \/ ~Responding /\ \E p \in Procs, auth \in Tokens : GetMood(p, None, auth)
  \/ ~Responding /\ \E p \in Procs : GetMoodFetch(p)

SpecPatch == InitAccount /\ [][NextPatch]_vars

\* ------------------------------------------------------------- the metrics
\* One process scrapes the database of the readers.
Commas(n) == [i \in 1..n |-> ","]
UsersParams ==
  { None, Some(<<>>), Some(Amy), Some(Zed \o <<",">> \o Amy), Some(Amy \o <<",">> \o Zed),
    Some(Amy \o <<",">> \o <<"b", "o", "b">>), Some(Amy \o <<",">> \o Amy),
    Some(Zed \o Commas(MaxNames - 1)), Some(Zed \o Commas(MaxNames)) }

NextMetrics ==
  \/ Finish(1)
  \/ ~Responding /\ \E names \in UsersParams : GetMetrics(1, names)
  \/ ~Responding /\ GetMetricsSelect(1)
  \/ ~Responding /\ GetMetricsFetch(1)

SpecMetrics == InitRead /\ [][NextMetrics]_vars

\* ------------------------------------------------------------- two users
\* Every process sends the requests of a user of its own; the users write at
\* the same times, so that their rows carry the same timestamps, and ask for
\* the same new username.
Owner(p) == ((p - 1) % NumUsers) + 1
Self(p) == Some(InitialUser(Owner(p)).token)

NextUsers ==
  \/ \E p \in Procs : Finish(p)
  \/ ~Responding /\ \E p \in Procs : PutMood(p, Self(p), IF Owner(p) = 1 THEN MoodA ELSE MoodB)
  \/ ~Responding /\ \E p \in Procs : PutMoodFetch(p)
  \/ ~Responding /\ \E p \in Procs : PutMoodDecide(p)
  \/ ~Responding /\ \E p \in Procs : PutMoodWrite(p)
  \/ ~Responding /\ \E p \in Procs : PutMoodCount(p)
  \/ ~Responding /\ \E p \in Procs : DeleteMood(p, Self(p), Stamps(<<JTime(StartTime)>>))
  \/ ~Responding /\ \E p \in Procs : DeleteMoodExec(p)
  \/ ~Responding /\ \E p \in Procs : DeleteHistory(p, Self(p), Password(InitialPassword(Owner(p))))
  \/ ~Responding /\ \E p \in Procs : DeleteHistoryExec(p)
  \/ ~Responding /\ \E p \in Procs : DeleteMe(p, Self(p), Password(InitialPassword(Owner(p))))
  \/ ~Responding /\ \E p \in Procs : DeleteMeMood(p)
  \/ ~Responding /\ \E p \in Procs : DeleteMeUser(p)
  \/ ~Responding /\ \E p \in Procs, body \in {FlagOnly, NewName} : PatchMe(p, Self(p), body)
  \/ ~Responding /\ \E p \in Procs : PatchMeCheck(p)
  \/ ~Responding /\ \E p \in Procs : PatchMeUpdate(p)

SpecUsers == InitAccount /\ [][NextUsers]_vars

\* ------------------------------------------------------------------ claims
Written(r) ==
  [r.lastMood EXCEPT !.pleasantness = r.body.pleasantness.v,
                     !.energy = r.body.energy.v, !.timestamp = r.ts]
Inserted(r) ==
  [ id |-> mood_id_seq - 1, timestamp |-> r.ts, pleasantness |-> r.body.pleasantness.v,
    energy |-> r.body.energy.v, user_id |-> The(r.user).id ]
StatsOf(uid) == {u.stats_mood_sets : u \in {w \in users : w.id = uid}}

\* C1: with requests handled one at a time, a PUT /mood that reads the clock
\* less than 10,000 ms after the timestamp written by the subject's previous
\* PUT /mood, whose row still exists, takes the update branch on that row;
\* once it has answered, the row holds its pleasantness, energy and timestamp,
\* no newer row of the subject exists, the row is the only one of the episode
\* and stats_mood_sets is what it was when the request was authenticated.
C1_CoalesceWithinWindow ==
  \A p \in Procs :
    (serial /\ req[p].op = "PUT /mood" /\ req[p].user # None) =>
      LET r == req[p]
          uid == The(r.user).id
          prev == {m \in MoodOf(uid) : m.id = lastPut[uid].id}
      IN  /\ ( r.pc = "write" /\ prev # {}
               /\ r.ts - The(prev).timestamp < WINDOW_MS )
             => (r.branch = "update" /\ r.lastMood = The(prev))
          /\ (r.pc = "done" /\ r.branch = "update")
             => /\ r.res = Ok
                /\ Written(r) \in mood
                /\ \A m \in MoodOf(uid) : m.id <= r.lastMood.id
                /\ {m \in MoodOf(uid) : m.timestamp + WINDOW_MS > r.ts} = {Written(r)}
                /\ StatsOf(uid) = {The(r.user).stats_mood_sets}

\* A second PUT /mood within the window has overwritten different values and
\* an earlier timestamp.
C1_Witness ==
  \E p \in Procs :
    /\ serial /\ req[p].op = "PUT /mood" /\ req[p].pc = "done"
    /\ req[p].branch = "update"
    /\ req[p].lastMood.pleasantness # req[p].body.pleasantness.v
    /\ req[p].lastMood.timestamp < req[p].ts
    /\ Written(req[p]) \in mood

C2_State ==
  \A p \in Procs :
    (serial /\ req[p].op = "PUT /mood" /\ req[p].user # None) =>
      LET r == req[p]
          uid == The(r.user).id
      IN  /\ ( r.pc = "write"
               /\ (MoodOf(uid) = {} \/ fetchMood(uid).timestamp + WINDOW_MS <= r.ts) )
             => r.branch = "insert"
          /\ (r.pc \in {"count", "done"} /\ r.branch = "insert")
             => /\ Inserted(r) \in mood
                /\ {m \in MoodOf(uid) : m.id > r.lastMood.id} = {Inserted(r)}
                /\ r.lastMood # NoMood => r.lastMood \in mood
                /\ StatsOf(uid) = { The(r.user).stats_mood_sets
                                      + IF r.pc = "done" THEN 1 ELSE 0 }
                /\ r.pc = "done" => r.res = Ok

C2_Step ==
  \A p \in Procs :
    (serial /\ req[p].op = "PUT /mood" /\ req[p].branch = "insert") =>
      /\ (req[p].pc = "write" /\ req'[p].pc = "count")
         => (mood \subseteq mood' /\ Cardinality(mood' \ mood) = 1 /\ users' = users)
      /\ (req[p].pc = "count" /\ req'[p].pc = "done")
         => /\ mood' = mood
            /\ \A u \in users : \E w \in users' :
                 w = IF u.id = The(req[p].user).id
                     THEN [u EXCEPT !.stats_mood_sets = @ + 1] ELSE u

\* C2: with requests handled one at a time, a PUT /mood that reads the clock
\* when the subject has no row, or when timestamp + 10,000 <= now for the row
\* with the highest id, takes the insert branch; the insert adds exactly one
\* row, with the clock's value and the submitted values, and changes no
\* other row, and the request adds exactly 1 to stats_mood_sets.
C2_InsertOutsideWindow == [] C2_State /\ [][C2_Step]_vars

\* Two PUT /mood a full window apart: the second has created a second row
\* and the counter is 2.
C2_Witness ==
  \E p \in Procs :
    /\ serial /\ req[p].op = "PUT /mood" /\ req[p].pc = "done"
    /\ req[p].branch = "insert" /\ req[p].lastMood # NoMood
    /\ req[p].lastMood \in mood
    /\ req[p].ts - req[p].lastMood.timestamp >= WINDOW_MS
    /\ StatsOf(The(req[p].user).id) = {2}

\* Two rows of one owner whose timestamps are less than a window apart.
DoubleInsert(uid) ==
  \E m, o \in MoodOf(uid) : m # o /\ Abs(m.timestamp - o.timestamp) < WINDOW_MS

\* Two PUT /mood in a row have updated the same row, and the second has
\* replaced the values of the first by its own, different ones.
BothUpdated(p) ==
  /\ req[p].op = "PUT /mood" /\ req[p].pc = "done" /\ req[p].branch = "update"
  /\ lastPut[The(req[p].user).id] = [id |-> req[p].lastMood.id, updates |-> 2]
  /\ req[p].lastMood.pleasantness # req[p].body.pleasantness.v
  /\ Written(req[p]) \in mood

\* C3, as claimed: with requests handled one after the other neither outcome
\* is reached: no two rows of one owner less than a window apart, and no two
\* requests that update the same row with only the values of one surviving.
C3_NeitherOutcomeSerial ==
  serial => /\ \A uid \in UserIds : ~DoubleInsert(uid)
            /\ \A p \in Procs : ~BothUpdated(p)

\* C3, amended: requests handled one after the other never leave two rows
\* of one owner less than a window apart; overlapping requests can (see the
\* witness), and can decide to update the same row.
C3_SerialNoDoubleInsert == serial => \A uid \in UserIds : ~DoubleInsert(uid)

\* Overlapping PUT /mood have inserted two rows within one window and the
\* counter has gone up by 2; two further PUT /mood with different values have
\* both read the newer row and both decided to update it.
C3_Witness ==
  /\ ~serial
  /\ DoubleInsert(Account)
  /\ StatsOf(Account) = {2}
  /\ \E p, q \in Procs :
       /\ p # q
       /\ req[p].op = "PUT /mood" /\ req[p].pc = "write" /\ req[p].branch = "update"
       /\ req[q].op = "PUT /mood" /\ req[q].pc = "write" /\ req[q].branch = "update"
       /\ req[p].lastMood = req[q].lastMood
       /\ req[p].body # req[q].body

BetweenInsertAndCount(uid) ==
  \E p \in Procs : /\ req[p].op = "PUT /mood" /\ req[p].pc = "count"
                   /\ The(req[p].user).id = uid

C4_State ==
  \A u \in users : ~BetweenInsertAndCount(u.id) => u.stats_mood_sets = inserted[u.id]

C4_Step ==
  \A u \in users : \A w \in users' : u.id = w.id => w.stats_mood_sets >= u.stats_mood_sets

\* C4: no step lowers the stats_mood_sets of a user that exists before and
\* after it, and whenever no PUT /mood of a user is between its insert and
\* its counter increment, the user's stats_mood_sets is the number of rows
\* ever inserted into mood for that user.
C4_CounterCountsInserts == [] C4_State /\ [][C4_Step]_vars

\* Rows have been inserted and deleted again, a PATCH /me has been written,
\* and the counter still counts both inserts.
C4_Witness ==
  \E u \in users :
    /\ u.stats_mood_sets = 2 /\ inserted[u.id] = 2
    /\ MoodOf(u.id) = {}
    /\ u.is_profile_private
    /\ \E p \in Procs : req[p].op = "DELETE /history/all" /\ req[p].pc = "done"

\* C8: in every reachable state the owner of every row of mood has a row in
\* users.
C8_OwnerExists == \A m \in mood : \E u \in users : u.id = m.user_id

ByName == {"GET /mood", "GET /history/all", "GET /history"}
Named(name) == {u \in users : u.username = name}

\* C5: a request of GET /mood/:user, GET /history/all/:user or
\* GET /history/:user that names a user by path username has a subject only
\* if it is the row of that name and both of its privacy flags are false; when
\* the named user has either flag true the request has no subject, whatever
\* its token, and is answered by an error that carries no sample and no
\* counter.
C5_PrivateNeverResolved ==
  \A p \in Procs :
    LET r == req[p]
    IN  (r.op \in ByName /\ r.pc # "idle" /\ r.param # None) =>
          /\ r.user # None =>
               /\ The(r.user) \in Named(The(r.param))
               /\ ~The(r.user).is_profile_private
               /\ ~The(r.user).is_history_private
          /\ (\E u \in Named(The(r.param)) : u.is_profile_private \/ u.is_history_private)
             => /\ r.user = None
                /\ r.pc = "done"
                /\ r.res.keys = {"status", "message"} /\ r.res.status = "error"
                /\ r.res.mood = None /\ r.res.entries = <<>> /\ r.res.total = 0

\* A user with is_profile_private true and is_history_private false, named by
\* a request that carries that user's own token, has been refused.
C5_Witness ==
  \E p \in Procs, u \in users :
    /\ u.is_profile_private /\ ~u.is_history_private
    /\ req[p].op = "GET /history/all" /\ req[p].pc = "done"
    /\ req[p].param = Some(u.username) /\ req[p].auth = Some(u.token)
    /\ req[p].user = None /\ req[p].res.code = 401

\* C6: in the three endpoints a request for which no subject has been
\* resolved has ended with an authorization error, so that no such request is
\* inside the handler or has got another answer from it.
C6_UnresolvedIsRejected ==
  \A p \in Procs :
    (req[p].op \in ByName /\ req[p].pc # "idle" /\ req[p].user = None) =>
      /\ req[p].pc = "done"
      /\ req[p].res.code = 401 /\ req[p].res.status = "error"

Matches(x, user) == x.t = "string" /\ Compare(x.v, user.password_hash)
Identity(u) == <<u.username, u.password_hash, u.token>>
Sets(x) == x.t = "string"

C7_Step ==
  \A p \in Procs : \A u \in users :
    (req'[p] # req[p] /\ req[p].user # None /\ The(req[p].user).id = u.id) =>
      LET r == req[p]
          after == {w \in users' : w.id = u.id}
      IN  /\ r.op = "PATCH /me" =>
                /\ (after = {} \/ Identity(The(after)) # Identity(u))
                   => Matches(r.body.confirm_password, u)
                /\ ( (Sets(r.body.username) \/ Sets(r.body.new_password))
                     /\ ~Matches(r.body.confirm_password, u) )
                   => (users' = users /\ mood' = mood)
          /\ (r.op \in {"DELETE /me", "DELETE /history/all"}
               /\ (users' # users \/ mood' # mood))
             => Matches(r.body.password, u)

\* C7: a step of PATCH /me changes username, password_hash or token only when
\* confirm_password matches the user's password, and changes nothing when the
\* body sets a username or a new_password (the empty string included) without
\* a matching confirm_password; a step of DELETE /me or DELETE /history/all
\* deletes a user or rows only when password matches the user's password.
C7_ConfirmationGate == [][C7_Step]_vars

Finite(x) == x.t = "number" /\ Abs(x.v) # Infinity
Acceptable(body) ==
  /\ Finite(body.pleasantness) /\ Abs(body.pleasantness.v) <= Scale
  /\ Finite(body.energy) /\ Abs(body.energy.v) <= Scale

C9_State ==
  \A p \in Procs :
    (req[p].op = "PUT /mood" /\ req[p].pc # "idle" /\ req[p].user # None) =>
      IF Acceptable(req[p].body)
      THEN req[p].pc = "done" => req[p].res = Ok
      ELSE /\ req[p].pc = "done" /\ req[p].branch = ""
           /\ req[p].res.code = 400 /\ req[p].res.status = "error"

C9_Step ==
  \A p \in Procs :
    (req'[p] # req[p] /\ req'[p].op = "PUT /mood" /\ ~Acceptable(req'[p].body))
      => (mood' = mood /\ users' = users)

\* C9: a PUT /mood of an authenticated user whose pleasantness or energy is
\* no finite number, or is beyond 1 in absolute value, is answered by a
\* validation error and no step of it changes a row of mood or of users; with
\* two finite numbers of absolute value at most 1, the bounds included, it is
\* not refused and ends with the answer ok.
C9_Validation == [] C9_State /\ [][C9_Step]_vars

\* A sample on both bounds has been stored, and a later request with an
\* infinite pleasantness has been refused and has left it alone.
C9_Witness ==
  /\ \E m \in mood : m.pleasantness = Scale /\ m.energy = -Scale
  /\ req[1].op = "PUT /mood" /\ req[1].pc = "done"
  /\ req[1].body.pleasantness = JNum(-Infinity) /\ req[1].body.energy = JNum(Scale)
  /\ req[1].res.code = 400

\* C10: for a GET /history with a subject, a limit in 1..100, a valid sort and
\* a valid time range, pages is floor(stats_mood_sets / limit); when page is
\* negative, or nonzero and at least pages, the answer is an empty entry list
\* with total = stats_mood_sets and pages, and no row has been read; otherwise
\* (page 0 included, also when pages is 0) the request goes on to the select.
C10_ShortCircuit ==
  \A p \in Procs :
    LET r == req[p]
        g == r.paging
    IN  ( r.op = "GET /history" /\ r.pc # "idle" /\ r.user # None
          /\ g.limit \in 1..MaxLimit /\ ~BadSort(r.query) /\ ~BadRange(g) ) =>
          LET total == The(r.user).stats_mood_sets
          IN  /\ g.pages * g.limit <= total /\ total < (g.pages + 1) * g.limit
              /\ IF g.page < 0 \/ (g.page # 0 /\ g.page >= g.pages)
                 THEN /\ r.pc = "done" /\ g.history = None
                      /\ r.res.keys = {"status", "entries", "total", "pages"}
                      /\ r.res.status = "ok" /\ r.res.entries = <<>>
                      /\ r.res.total = total /\ r.res.pages = g.pages
                 ELSE \/ r.pc = "select"
                      \/ r.pc = "done" /\ g.history # None

\* stats_mood_sets = 30 and limit = 10 give pages = 3, and page = 3 has been
\* answered by no entries, total = 30 and pages = 3 without a select.
C10_Witness ==
  \E p \in Procs :
    /\ req[p].op = "GET /history" /\ req[p].pc = "done" /\ req[p].user # None
    /\ The(req[p].user).stats_mood_sets = 30
    /\ req[p].paging.limit = 10 /\ req[p].paging.page = 3
    /\ req[p].paging.history = None
    /\ req[p].res.entries = <<>> /\ req[p].res.total = 30 /\ req[p].res.pages = 3

\* The rows of a user with after < timestamp < before, and the number of them
\* that come before a row in the order asked for.
InRange(uid, after, before) ==
  {m \in mood : m.user_id = uid /\ after < m.timestamp /\ m.timestamp < before}
Before(rows, m, oldestFirst) ==
  Cardinality({o \in rows : IF oldestFirst THEN o.id < m.id ELSE o.id > m.id})
Min(a, b) == IF a < b THEN a ELSE b
\* x is y cut to two decimals.
CutOf(x, y) == x % (Scale \div 100) = 0 /\ x <= y /\ y < x + Scale \div 100

\* C11: a GET /history with valid parameters that is not short-circuited
\* answers with the rows at positions page*limit .. page*limit+limit-1 of the
\* subject's own rows with after < timestamp < before, by id descending
\* (default, newest) or ascending (oldest): at most limit entries, in that
\* order, each the timestamp and the values of its row, with total =
\* stats_mood_sets and pages.
C11_PageOfRange ==
  \A p \in Procs :
    LET r == req[p]
        g == r.paging
    IN  ( r.op = "GET /history" /\ r.pc = "done" /\ r.user # None
          /\ g.history # None ) =>
          LET rows == InRange(The(r.user).id, g.after, g.before)
              h == The(g.history)
              e == r.res.entries
              first == g.page * g.limit
              n == IF Cardinality(rows) > first
                   THEN Min(g.limit, Cardinality(rows) - first) ELSE 0
          IN  /\ Len(h) = n /\ Len(e) = n /\ n <= g.limit
              /\ \A i \in 1..n :
                   /\ h[i] \in rows
                   /\ Before(rows, h[i], r.query.sort = Some(Oldest)) = first + i - 1
                   /\ e[i].timestamp = h[i].timestamp
                   /\ CutOf(e[i].pleasantness, h[i].pleasantness)
                   /\ CutOf(e[i].energy, h[i].energy)
              /\ r.res.status = "ok"
              /\ r.res.total = The(r.user).stats_mood_sets
              /\ r.res.pages = g.pages

\* The second page of one row each, oldest first, of a range that leaves out
\* the row on its upper bound: the one entry is the second oldest row.
C11_Witness ==
  \E p \in Procs :
    /\ req[p].op = "GET /history" /\ req[p].pc = "done" /\ req[p].user # None
    /\ req[p].paging.history # None
    /\ req[p].query.sort = Some(Oldest)
    /\ req[p].paging.limit = 1 /\ req[p].paging.page = 1
    /\ Len(req[p].res.entries) = 1
    /\ req[p].res.entries[1].timestamp = StartTime + TickMs
    /\ \E m \in MoodOf(The(req[p].user).id) : m.timestamp = req[p].paging.before

\* The value of a query parameter that is an integer, if it is one.
IntegerParam(x) == IF ParseInt(x).nan THEN None ELSE Some(ParseInt(x).v)
Refused(r) == r.pc = "done" /\ r.res.status = "error" /\ r.res.entries = <<>>

\* C12: a GET /history with a subject whose limit is an integer outside
\* 1..100, or whose after and before are integers without after < before, has
\* been answered by an error without entries; and the limit of the handler is
\* the parameter whenever the parameter is an integer, so that the default
\* applies only without one.
C12_LimitAndRangeRejected ==
  \A p \in Procs :
    LET r == req[p]
        limit == IntegerParam(r.query.limit)
        after == IntegerParam(r.query.after)
        before == IntegerParam(r.query.before)
    IN  (r.op = "GET /history" /\ r.pc # "idle" /\ r.user # None) =>
          /\ (limit # None /\ The(limit) \notin 1..MaxLimit) => Refused(r)
          /\ (after # None /\ before # None /\ ~(The(after) < The(before)))
             => Refused(r)
          /\ limit # None => r.paging.limit = The(limit)

TokensKept == \A u \in users : \A w \in users' : w.id = u.id => w.token = u.token
InitialTokens == {InitialUser(u).token : u \in UserIds}

C13_State ==
  \A p \in Procs :
    LET r == req[p]
    IN  ( r.op = "PATCH /me" /\ r.pc = "done" /\ r.res = Ok
          /\ Sets(r.body.new_password) ) =>
          /\ UserByToken(The(r.auth)) = None
          /\ userParamOrAuth(None, r.auth) = None
          /\ \E u \in users :
               /\ u.id = The(r.user).id
               /\ u.token \notin InitialTokens \cup {The(r.auth)}
               /\ u.password_hash = Hash(r.body.new_password.v)

C13_Step ==
  \A p \in Procs :
    (req[p].op = "PATCH /me" /\ req'[p] # req[p] /\ ~Sets(req[p].body.new_password))
      => TokensKept

\* C13: when a PATCH /me that sets new_password has answered ok, the user's
\* row holds a token drawn by that request together with the hash of the new
\* password, and the token of the request resolves no user in getAuth or in
\* userParamOrAuth; and no step of a PATCH /me without new_password changes
\* the token of a user.
C13_TokenReissued == [] C13_State /\ [][C13_Step]_vars

IdentityKept ==
  \A u \in users : \A w \in users' : w.id = u.id => Identity(w) = Identity(u)
OnlyFlags(body) == ~Sets(body.username) /\ ~Sets(body.new_password)

C20_Step ==
  \A p \in Procs :
    (req[p].op = "PATCH /me" /\ req'[p] # req[p] /\ OnlyFlags(req[p].body))
      => IdentityKept

\* C20: no step of a PATCH /me whose body sets only privacy flags changes the
\* username, the password_hash or the token of a user, whatever other
\* PATCH /me of the same user it overlaps.
C20_OnlySuppliedFields == [][C20_Step]_vars

\* C14: a GET /history/all with a subject and with sort omitted, newest or
\* oldest has, once it has ended, answered ok with one entry for every row of
\* the subject and for no other row, by id descending for newest and
\* ascending for oldest; with a sort that is present but neither, it has
\* answered with an error.
C14_AllHistory ==
  \A p \in Procs :
    LET r == req[p]
        g == r.paging
    IN  (r.op = "GET /history/all" /\ r.pc = "done" /\ r.user # None) =>
          IF r.query.sort \in {None, Some(Newest), Some(Oldest)}
          THEN /\ r.res.status = "ok" /\ g.history # None
               /\ LET rows == MoodOf(The(r.user).id)
                      h == The(g.history)
                  IN  /\ Len(h) = Cardinality(rows)
                      /\ Len(r.res.entries) = Len(h)
                      /\ \A i \in 1..Len(h) :
                           /\ h[i] \in rows
                           /\ \A j \in 1..Len(h) : h[i] = h[j] => i = j
                           /\ r.query.sort # None =>
                                Before(rows, h[i], r.query.sort = Some(Oldest)) = i - 1
                           /\ r.res.entries[i].timestamp = h[i].timestamp
          ELSE Refused(r)

Blocks == <<"user_energy", "user_pleasantness", "user_mood_sets">>
BlockOf(metric) == CHOOSE k \in 1..3 : Blocks[k] = metric
\* The positions of the lines of a metric in a text.
LinesOf(text, metric) ==
  {i \in 1..Len(text) : text[i].kind = "sample" /\ text[i].metric = metric}
\* The existing users with both flags false among the names of a parameter.
PublicAmong(names) ==
  {u \in users : /\ \E i \in 1..Len(Split(names)) : Split(names)[i] = u.username
                 /\ ~u.is_profile_private /\ ~u.is_history_private}

C15_State ==
  \A p \in Procs :
    LET r == req[p]
        t == r.res.text
    IN  (r.op = "GET /metrics" /\ r.pc = "done") =>
          IF r.metrics.names = None \/ Len(Split(The(r.metrics.names))) > MaxNames
          THEN r.res.code = 400 /\ r.res.status = "error" /\ t = <<>>
          ELSE The(r.metrics.names) # <<>> =>
            /\ r.res.code = 200
            /\ \A i, j \in 1..Len(t) :
                 (i < j /\ t[i].kind = "sample" /\ t[j].kind = "sample")
                   => /\ BlockOf(t[i].metric) <= BlockOf(t[j].metric)
                      /\ t[i].metric = t[j].metric => StrLess(t[j].user, t[i].user)
            /\ \A k \in 1..3 :
                 /\ {t[i].user : i \in LinesOf(t, Blocks[k])}
                      = {u.username : u \in PublicAmong(The(r.metrics.names))}
                 /\ Cardinality(LinesOf(t, Blocks[k]))
                      = Cardinality(PublicAmong(The(r.metrics.names)))

C15_Step ==
  (\E p \in Procs : req'[p] # req[p] /\ "GET /metrics" \in {req[p].op, req'[p].op})
    => (users' = users /\ mood' = mood)

\* C15: a GET /metrics without a users parameter, or with more than 16 names,
\* is answered by a 400 error; with 1 to 16 names the answer holds the sample
\* lines of user_energy, then user_pleasantness, then user_mood_sets, and in
\* each block exactly one line for every existing user with both privacy
\* flags false whose name was asked for, and no other line, by username
\* descending; no step of the request changes a row of users or of mood.
C15_Metrics == [] C15_State /\ [][C15_Step]_vars

\* amy,zed has been asked for, both are public, and zed's line comes first.
C15_Witness ==
  /\ req[1].op = "GET /metrics" /\ req[1].pc = "done"
  /\ req[1].metrics.names = Some(Amy \o <<",">> \o Zed)
  /\ Len(req[1].res.text) = 14
  /\ req[1].res.text[3].user = Zed /\ req[1].res.text[4].user = Amy

\* C16: every response whose status says error carries the fields status
\* and message.
C16_ErrorsCarryMessage ==
  \A p \in Procs :
    (req[p].pc = "done" /\ req[p].res.status = "error")
      => {"status", "message"} \subseteq req[p].res.keys

\* A PUT /mood of the owner of a row runs its update statement.
UpdateOfOwner(p, m) ==
  /\ req[p].op = "PUT /mood" /\ req[p].pc = "write" /\ req[p].branch = "update"
  /\ req'[p] # req[p]
  /\ The(req[p].user).id = m.user_id

C17_Step ==
  \A m \in mood :
    (\E o \in mood' : o.id = m.id /\ o # m) =>
      /\ \E p \in Procs : UpdateOfOwner(p, m) /\ m.timestamp + WINDOW_MS > req[p].ts
      /\ \A o \in MoodOf(m.user_id) : o.id <= m.id

\* C17: a step changes a row of mood that it keeps only if it is the update
\* statement of a PUT /mood of the row's owner, the row has the highest id
\* among its owner's rows, and its timestamp + 10,000 is greater than the
\* time that the statement writes.
C17_OnlyLatestInWindow == [][C17_Step]_vars

\* C19: for any two rows of one owner, the one with the higher id has a
\* timestamp that is greater than or equal to the other's.
C19_IdOrderIsTimeOrder ==
  \A m, o \in mood :
    (m.user_id = o.user_id /\ m.id > o.id) => m.timestamp >= o.timestamp

\* The rows of users and of mood that belong to a user, after a step.
MoodOfNext(uid) == {m \in mood' : m.user_id = uid}
RecordOf(uid) == {u \in users : u.id = uid}
RecordOfNext(uid) == {u \in users' : u.id = uid}

C18_Step ==
  \A p \in Procs :
    (req'[p] # req[p] /\ req[p].user # None) =>
      \A b \in UserIds \ {The(req[p].user).id} :
        /\ MoodOfNext(b) = MoodOf(b)
        /\ RecordOfNext(b) = RecordOf(b)

\* C18: a step of a request authenticated as one user (PUT /mood,
\* DELETE /mood, DELETE /history/all, PATCH /me, DELETE /me) leaves the rows
\* of mood of every other user, and every other user's row of users with its
\* stats_mood_sets, as they were.
C18_Isolation == [][C18_Step]_vars

\* A DELETE /mood of one user has deleted that user's row of a timestamp at
\* which another user has a row too, and the other's row is still there.
C18_Witness ==
  \E p \in Procs :
    /\ req[p].op = "DELETE /mood" /\ req[p].pc = "done" /\ req[p].res.deleted = 1
    /\ \E m \in mood : /\ m.user_id # The(req[p].user).id
                       /\ JTime(m.timestamp) = req[p].body.timestamps.v[1]
====
